---- MODULE Spec2Model ----
(***************************************************************************)
(* SimpleOutputPredictor (pkg/cache/output_predictor.go): a moving         *)
(* histogram of output tokens per input-token bucket, kept in a rotating   *)
(* ring of interval slices plus a summary, with weighted-random Predict.   *)
(*                                                                         *)
(* Time is measured in seconds.  The predictor object is the record p; the *)
(* callers' goroutines are thr, the rotate goroutines spawned by tryRotate *)
(* are rot, the RWMutex is mu.                                             *)
(***************************************************************************)
EXTENDS Integers, FiniteSets

\* ------------------------------------------------------------------------
\* Program constants
\* ------------------------------------------------------------------------
MovingInterval == 10

MaxOutputLen == 4096

OptimisticColdPrediction == 0

RandomColdPredition == 1

InputColdPrediction == 2

PessimiticColdPrediction == 3

DefaultColdPrediction == OptimisticColdPrediction

\* ------------------------------------------------------------------------
\* Bounds of the model
\* ------------------------------------------------------------------------
\* caller goroutines
NumThreads == 2

\* rotate goroutines alive at the same time
MaxRotators == 2

\* calls of AddTrace / Predict in one behaviour
MaxCalls == 3

\* calls in one behaviour of the one-caller specification
MaxSeqCalls == 3

\* largest token count and largest limit given to token2bucket by itself
MaxBucketTokens == 70

MaxBucketLimit == 8

\* ------------------------------------------------------------------------
\* Arithmetic helpers (math.Log2, math.Ceil, math.Round on integers)
\* ------------------------------------------------------------------------
RECURSIVE FloorLog2(_)
FloorLog2(n) == IF n < 2 THEN 0 ELSE 1 + FloorLog2(n \div 2)

\* mutant of CeilLog2: one more than the integer part, also for a power of 2
CeilLog2_plusOne(n) == 1 + FloorLog2(n)

\* int(math.Ceil(math.Log2(float64(n)))) for n >= 1
CeilLog2(n) == IF n <= 1 THEN 0 ELSE 1 + FloorLog2(n - 1)

\* <<q, r>> with x * 2^k = q * n + r and 0 <= r < n, for 0 <= x < n
RECURSIVE DivPow2(_, _, _)
DivPow2(x, k, n) ==
    IF k = 0 THEN <<0, x>>
    ELSE LET qr == DivPow2(x, k - 1, n)
             d  == 2 * qr[2]
         IN  IF d >= n THEN <<2 * qr[1] + 1, d - n>> ELSE <<2 * qr[1], d>>

\* int(math.Round(math.Log2(float64(n)))) for n >= 1: log2(n) lies in
\* [f, f+1) with f = FloorLog2(n), and rounds up iff n^2 >= 2^(2f+1)
\* (never an exact half: 2^(2f+1) is no square).  n^2 is compared with
\* 2^(2f+1) through the quotient 2^(2f+1) \div n, which stays small.
RoundLog2(n) ==
    LET f == FloorLog2(n)
    IN  IF n = 2 ^ f THEN f
        ELSE LET qr == DivPow2(2 ^ f, f + 1, n)
             IN  IF n > qr[1] \/ (n = qr[1] /\ qr[2] = 0) THEN f + 1 ELSE f

\* ------------------------------------------------------------------------
\* outputDistribution
\* ------------------------------------------------------------------------
\* len(hist)
HistLen(hist) == Cardinality(DOMAIN hist)

\* mutant of setSkipped: the skip slot gets 1, however many were skipped
setSkipped_one(hist, skipped) ==
    [hist EXCEPT ![HistLen(hist) - 1] = 1]

setSkipped(hist, skipped) == [hist EXCEPT ![HistLen(hist) - 1] = skipped]

getSkipped(hist) == hist[HistLen(hist) - 1]

\* One iteration of the loop of reset is three steps on cell i of slice s:
\* the row sum, the summary cell, the slice cell.
\* mutant of resetSums: every cell is subtracted from the first row's sum
resetSums_firstRow(q, s, i, inputBucket) ==
    [q EXCEPT !.inputsSums[0] = @ - q.window[s][i]]

resetSums(q, s, i, inputBucket) ==
    [q EXCEPT !.inputsSums[inputBucket] = @ - q.window[s][i]]

\* mutant of resetDistributions: the summary cell keeps the retired count
resetDistributions_keep(q, s, i) == q

resetDistributions(q, s, i) ==
    [q EXCEPT !.inputs[i] = @ - q.window[s][i]]

\* mutant of resetCell: the slice cell is not zeroed
resetCell_keep(q, s, i) == q

resetCell(q, s, i) ==
    [q EXCEPT !.window[s][i] = 0]

\* the iterations of the loop of reset over the rest of one row of cells:
\* from cell i until leftOutputBucket reaches 0
RECURSIVE resetRow(_, _, _, _, _)
resetRow(q, s, i, inputBucket, leftOutputBucket) ==
    LET q1 == resetCell(resetDistributions(resetSums(q, s, i, inputBucket), s, i), s, i)
    IN  IF leftOutputBucket - 1 = 0 THEN q1
        ELSE resetRow(q1, s, i + 1, inputBucket, leftOutputBucket - 1)

\* the loop of reset from the first cell i of row inputBucket on, row after
\* row, then the skip slot
RECURSIVE reset(_, _, _, _)
reset(q, s, i, inputBucket) ==
    IF i < HistLen(q.window[s]) - 1
    THEN reset(resetRow(q, s, i, inputBucket, q.outputBuckets), s,
               i + q.outputBuckets, inputBucket + 1)
    ELSE resetCell(q, s, i)

\* ------------------------------------------------------------------------
\* rotatingHistory
\* ------------------------------------------------------------------------
\* len(hist.window)
RingLen(q) == Cardinality(DOMAIN q.window)

Tail(q) == q.window[q.tail]

Head(q) == q.window[q.head]

Size(q) == q.size

\* mutant of ForwardCount: one interval is forwarded, however many passed
ForwardCount_once(ts, newHeadTimestamp) == 1

\* the loop of forwardLocked that counts the intervals to forward
RECURSIVE ForwardCount(_, _)
ForwardCount(ts, newHeadTimestamp) ==
    IF ts - newHeadTimestamp >= MovingInterval
    THEN 1 + ForwardCount(ts, newHeadTimestamp + MovingInterval)
    ELSE 0

\* mutant of forwardLocked: the head timestamp is not moved
forwardLocked_keepTimestamp(q, ts) ==
    IF ts - q.headTimestamp < MovingInterval
    THEN [q |-> q, forwarded |-> 0]
    ELSE LET forwarded == ForwardCount(ts, q.headTimestamp)
             newHead   == (q.head + 1) % RingLen(q)
         IN  [q |-> [q EXCEPT !.head = newHead,
                              !.window[newHead] = setSkipped(@, forwarded),
                              !.size = @ + forwarded],
              forwarded |-> forwarded]

\* mutant of forwardLocked: the size grows by one, as the head does
forwardLocked_sizeByOne(q, ts) ==
    IF ts - q.headTimestamp < MovingInterval
    THEN [q |-> q, forwarded |-> 0]
    ELSE LET forwarded == ForwardCount(ts, q.headTimestamp)
             newHead   == (q.head + 1) % RingLen(q)
         IN  [q |-> [q EXCEPT !.head = newHead,
                              !.headTimestamp = @ + forwarded * MovingInterval,
                              !.window[newHead] = setSkipped(@, forwarded),
                              !.size = @ + 1],
              forwarded |-> forwarded]

\* mutant of forwardLocked: the skip slot of the new head is left as it was
forwardLocked_keepSkip(q, ts) ==
    IF ts - q.headTimestamp < MovingInterval
    THEN [q |-> q, forwarded |-> 0]
    ELSE LET forwarded == ForwardCount(ts, q.headTimestamp)
             newHead   == (q.head + 1) % RingLen(q)
         IN  [q |-> [q EXCEPT !.head = newHead,
                              !.headTimestamp = @ + forwarded * MovingInterval,
                              !.size = @ + forwarded],
              forwarded |-> forwarded]

\* mutant of forwardLocked: the head timestamp is set to ts
forwardLocked_toTs(q, ts) ==
    IF ts - q.headTimestamp < MovingInterval
    THEN [q |-> q, forwarded |-> 0]
    ELSE LET forwarded == ForwardCount(ts, q.headTimestamp)
             newHead   == (q.head + 1) % RingLen(q)
         IN  [q |-> [q EXCEPT !.head = newHead,
                              !.headTimestamp = ts,
                              !.window[newHead] = setSkipped(@, forwarded),
                              !.size = @ + forwarded],
              forwarded |-> forwarded]

\* [q |-> the history after the call, forwarded |-> its result]
forwardLocked(q, ts) ==
    IF ts - q.headTimestamp < MovingInterval
    THEN [q |-> q, forwarded |-> 0]
    ELSE LET forwarded == ForwardCount(ts, q.headTimestamp)
             newHead   == (q.head + 1) % RingLen(q)
         IN  [q |-> [q EXCEPT !.head = newHead,
                              !.headTimestamp = @ + forwarded * MovingInterval,
                              !.window[newHead] = setSkipped(@, forwarded),
                              !.size = @ + forwarded],
              forwarded |-> forwarded]

\* mutant of advanceTail: the size is not reduced by the skip count
advanceTail_keepSize(q) ==
    [q EXCEPT !.tail = (q.tail + 1) % RingLen(q)]

\* mutant of advanceTail: the size is reduced by the skip count of the
\* slice that was the tail
advanceTail_oldSkip(q) ==
    [q EXCEPT !.tail = (q.tail + 1) % RingLen(q),
              !.size = @ - getSkipped(q.window[q.tail])]

\* what resetTail does after hist.Tail().reset(...): move tail, shrink size
advanceTail(q) ==
    LET newTail == (q.tail + 1) % RingLen(q)
    IN  [q EXCEPT !.tail = newTail,
                  !.size = @ - getSkipped(q.window[newTail])]

resetTail(q) == advanceTail(reset(q, q.tail, 0, 0))

\* ------------------------------------------------------------------------
\* SimpleOutputPredictor
\* ------------------------------------------------------------------------
NewSimpleOutputPredictor(maxInputTokens, maxOutputTokens, window, now0) ==
    LET extraSlot     == IF window % MovingInterval > 0 THEN 2 ELSE 1
        inputBuckets  == CeilLog2(maxInputTokens + 1)
        outputBuckets == CeilLog2(maxOutputTokens + 1)
        slots         == (window \div MovingInterval) + extraSlot
    IN  [window        |-> [s \in 0 .. slots - 1 |->
                              [c \in 0 .. inputBuckets * outputBuckets |-> 0]],
         head          |-> 0,
         tail          |-> 0,
         headTimestamp |-> now0,
         size          |-> 0,
         inputs        |-> [c \in 0 .. inputBuckets * outputBuckets - 1 |-> 0],
         inputsSums    |-> [i \in 0 .. inputBuckets - 1 |-> 0],
         inputBuckets  |-> inputBuckets,
         outputBuckets |-> outputBuckets,
         testing       |-> FALSE]

\* mutant of token2bucket: the clamp is one bucket too low
token2bucket_clampLow(tokens, limit) ==
    LET bucket == IF tokens > 0 THEN RoundLog2(tokens) ELSE 0
    IN  IF bucket >= limit THEN limit - 2 ELSE bucket

\* mutant of token2bucket: the logarithm is truncated, not rounded
token2bucket_floor(tokens, limit) ==
    LET bucket == IF tokens > 0 THEN FloorLog2(tokens) ELSE 0
    IN  IF bucket >= limit THEN limit - 1 ELSE bucket

token2bucket(tokens, limit) ==
    LET bucket == IF tokens > 0 THEN RoundLog2(tokens) ELSE 0
    IN  IF bucket >= limit THEN limit - 1 ELSE bucket

bucket2idx(q, inputBucket, outputBucket) == inputBucket * q.outputBuckets + outputBucket

\* the condition under which tryRotate starts a rotate goroutine, on the
\* head timestamp it observed
tryRotate(observed, ts) == ~(ts - observed < MovingInterval)

\* window := int32(len(p.history.window) - 1) of rotate
RotateWindow(q) == RingLen(q) - 1

\* the unlocked check at the start of rotate: TRUE when it logs and gives up
rotateNoSpare(q) == Size(q) > RotateWindow(q)

\* mutant of rotateMustReset: the ring length for the window, and > for >=
rotateMustReset_len(q) == Size(q) > RingLen(q)

\* mutant of rotateMustReset: the loop stops at the slice before head
rotateMustReset_beforeHead(q) ==
    Size(q) >= RotateWindow(q) /\ (q.tail + 1) % RingLen(q) # q.head

\* mutant of rotateMustReset: > for >=
rotateMustReset_late(q) == Size(q) > RotateWindow(q)

\* the condition of the loop of rotate
rotateMustReset(q) == Size(q) >= RotateWindow(q)

RECURSIVE rotateLoop(_)
rotateLoop(q) == IF rotateMustReset(q) THEN rotateLoop(resetTail(q)) ELSE q

\* rotate(ts) run from start to end with nothing in between
rotate(q, ts) ==
    IF rotateNoSpare(q) THEN q
    ELSE LET f == forwardLocked(q, ts)
         IN  IF f.forwarded = 0 THEN q ELSE rotateLoop(f.q)

\* mutant of addInputs: a store in place of the add
addInputs_store(q, idx, cnt) == [q EXCEPT !.inputs[idx] = cnt]

\* mutant of addInputs: the summary cell is not incremented
addInputs_none(q, idx, cnt) == q

\* the three atomic adds of AddTraceWithTimestamp
addInputs(q, idx, cnt) == [q EXCEPT !.inputs[idx] = @ + cnt]

\* mutant of addInputsSums: the row sum is not incremented
addInputsSums_none(q, inputBucket, cnt) == q

\* mutant of addInputsSums: the row sum gets the count twice
addInputsSums_twice(q, inputBucket, cnt) == [q EXCEPT !.inputsSums[inputBucket] = @ + 2 * cnt]

addInputsSums(q, inputBucket, cnt) == [q EXCEPT !.inputsSums[inputBucket] = @ + cnt]

addHistory(q, slot, idx, cnt) == [q EXCEPT !.window[slot][idx] = @ + cnt]

\* mutant of coldPredict: the input tokens are returned
coldPredict_input(inputTokens, r) == inputTokens

coldPredict(inputTokens, r) ==
    CASE DefaultColdPrediction = RandomColdPredition -> r + 1
      [] DefaultColdPrediction = InputColdPrediction -> inputTokens
      [] DefaultColdPrediction = PessimiticColdPrediction -> MaxOutputLen
      [] OTHER -> 1

\* mutant of predictScan: the cursor is compared with <= for <
RECURSIVE predictScan_inclusive(_, _, _, _, _)
predictScan_inclusive(q, cursor, accumulation, i, scanRange) ==
    IF i < scanRange
    THEN LET acc == accumulation + q.inputs[i]
         IN  IF cursor <= acc
             THEN 2 ^ (i - scanRange + q.outputBuckets)
             ELSE predictScan_inclusive(q, cursor, acc, i + 1, scanRange)
    ELSE 2 ^ (q.outputBuckets - 1)

\* the scan of Predict from cell i on, with nothing in between
RECURSIVE predictScan(_, _, _, _, _)
predictScan(q, cursor, accumulation, i, scanRange) ==
    IF i < scanRange
    THEN LET acc == accumulation + q.inputs[i]
         IN  IF cursor < acc
             THEN 2 ^ (i - scanRange + q.outputBuckets)
             ELSE predictScan(q, cursor, acc, i + 1, scanRange)
    ELSE 2 ^ (q.outputBuckets - 1)

\* Predict run from start to end with nothing in between; cursor is the
\* value p.rand(randRange) draws, r the value rand.Intn(MaxOutputLen) draws
Predict(q, inputTokens, cursor, r) ==
    LET inputBucket == token2bucket(inputTokens, q.inputBuckets)
        randRange   == q.inputsSums[inputBucket]
        scanRange   == (inputBucket + 1) * q.outputBuckets
    IN  IF randRange = 0 THEN coldPredict(inputTokens, r)
        ELSE predictScan(q, cursor, 0, scanRange - q.outputBuckets, scanRange)

\* ------------------------------------------------------------------------
\* State
\* ------------------------------------------------------------------------
VARIABLES
    p,            \* the SimpleOutputPredictor: history, inputs, inputsSums, ...
    mu,           \* p.mu: [readers |-> callers holding RLock, w |-> rotate holding Lock, or 0]
    testWait,     \* p.testWait: the counter of the WaitGroup
    thr,          \* the callers' goroutines: position and locals
    rot,          \* the rotate goroutines: position and locals
    synced,       \* per caller, the head timestamp at its last RLock
    now,          \* the clock read by time.Now()
    env,          \* the values the callers draw their arguments from
    calls,        \* number of calls made so far
    errorLogged,  \* klog.Error was called by a rotate
    traced,       \* per summary cell, the sum of cnt over the AddTrace calls made
    retired,      \* some rotate has begun to reset a tail slice
    log,          \* the AddTrace calls made from start to end, in order
    last          \* the last call made from start to end: arguments and result

vars == <<p, mu, testWait, thr, rot, synced, now, env, calls, errorLogged,
          traced, retired, log, last>>

Threads == 1 .. NumThreads

RotIds == 1 .. MaxRotators

IdleThread ==
    [pc |-> "idle", inputTokens |-> 0, outputTokens |-> 0, cnt |-> 0, ts |-> 0,
     inputBucket |-> 0, idx |-> 0, slot |-> 0,
     cursor |-> 0, accumulation |-> 0, i |-> 0, ret |-> 0]

FreeRotator ==
    [pc |-> "free", ts |-> 0, i |-> 0, inputBucket |-> 0, leftOutputBucket |-> 0]

NoCall ==
    [op |-> "none", inputTokens |-> 0, outputTokens |-> 0, cnt |-> 0, ts |-> 0,
     forwarded |-> 0, ret |-> 0]

\* the state right after NewSimpleOutputPredictor, at time 0
InitWith(q, e) ==
    /\ p = q
    /\ env = e
    /\ mu = [readers |-> {}, w |-> 0]
    /\ testWait = 0
    /\ thr = [t \in Threads |-> IdleThread]
    /\ rot = [r \in RotIds |-> FreeRotator]
    /\ synced = [t \in Threads |-> q.headTimestamp]
    /\ now = 0
    /\ calls = 0
    /\ errorLogged = FALSE
    /\ traced = [c \in DOMAIN q.inputs |-> 0]
    /\ retired = FALSE
    /\ log = <<>>
    /\ last = NoCall

\* ------------------------------------------------------------------------
\* The callers' goroutines, step by step
\* ------------------------------------------------------------------------
\* the rotate goroutine that `go p.rotate(ts)` starts
NewRotator == CHOOSE r \in RotIds : rot[r].pc = "free" /\ \A r2 \in RotIds : rot[r2].pc = "free" => r <= r2

\* AddTraceWithTimestamp up to the RLock: tryRotate, the buckets.  The read
\* of headTimestamp in tryRotate is not synchronised with forwardLocked: it
\* yields the current value or the one this goroutine last synchronised with.
AddTraceWithTimestamp(t) ==
    /\ thr[t].pc = "idle"
    /\ calls < MaxCalls
    /\ \E trace \in env.traces, cnt \in env.counts, ts \in env.times,
          observed \in {synced[t], p.headTimestamp} :
         LET inputTokens == trace[1]
             outputTokens == trace[2]
             inputBucket == token2bucket(inputTokens, p.inputBuckets)
             idx == bucket2idx(p, inputBucket, token2bucket(outputTokens, p.outputBuckets))
             spawn == tryRotate(observed, ts)
         IN  /\ spawn => \E r \in RotIds : rot[r].pc = "free"
             /\ rot' = IF spawn
                       THEN [rot EXCEPT ![NewRotator] = [FreeRotator EXCEPT !.pc = "check", !.ts = ts]]
                       ELSE rot
             /\ testWait' = IF spawn /\ p.testing THEN testWait + 1 ELSE testWait
             /\ thr' = [thr EXCEPT ![t] =
                          [IdleThread EXCEPT !.pc = IF p.testing THEN "wait" ELSE "rlock",
                                             !.inputTokens = inputTokens,
                                             !.outputTokens = outputTokens,
                                             !.cnt = cnt, !.ts = ts,
                                             !.inputBucket = inputBucket, !.idx = idx]]
             /\ traced' = [traced EXCEPT ![idx] = @ + cnt]
    /\ calls' = calls + 1
    /\ UNCHANGED <<p, mu, synced, now, env, errorLogged, retired, log, last>>

\* p.testWait.Wait()
TestWait(t) ==
    /\ thr[t].pc = "wait"
    /\ testWait = 0
    /\ thr' = [thr EXCEPT ![t].pc = "rlock"]
    /\ UNCHANGED <<p, mu, testWait, rot, synced, now, env, calls, errorLogged,
                   traced, retired, log, last>>

\* mutant of RLock: the read lock is granted while a rotate holds the lock
RLock_noWait(t) ==
    /\ thr[t].pc = "rlock"
    /\ mu' = [mu EXCEPT !.readers = @ \cup {t}]
    /\ synced' = [synced EXCEPT ![t] = p.headTimestamp]
    /\ thr' = [thr EXCEPT ![t].pc = "inputs"]
    /\ UNCHANGED <<p, testWait, rot, now, env, calls, errorLogged, traced, retired, log, last>>

\* p.mu.RLock(): blocked while a rotate holds or waits for the lock
RLock(t) ==
    /\ thr[t].pc = "rlock"
    /\ mu.w = 0
    /\ mu' = [mu EXCEPT !.readers = @ \cup {t}]
    /\ synced' = [synced EXCEPT ![t] = p.headTimestamp]
    /\ thr' = [thr EXCEPT ![t].pc = "inputs"]
    /\ UNCHANGED <<p, testWait, rot, now, env, calls, errorLogged, traced, retired, log, last>>

\* atomic.AddInt32(&p.inputs[idx], cnt)
AddInputs(t) ==
    /\ thr[t].pc = "inputs"
    /\ p' = addInputs(p, thr[t].idx, thr[t].cnt)
    /\ thr' = [thr EXCEPT ![t].pc = "sums"]
    /\ UNCHANGED <<mu, testWait, rot, synced, now, env, calls, errorLogged,
                   traced, retired, log, last>>

\* atomic.AddInt32(&p.inputsSums[inputBucket], cnt)
AddInputsSums(t) ==
    /\ thr[t].pc = "sums"
    /\ p' = addInputsSums(p, thr[t].inputBucket, thr[t].cnt)
    /\ thr' = [thr EXCEPT ![t].pc = "head"]
    /\ UNCHANGED <<mu, testWait, rot, synced, now, env, calls, errorLogged,
                   traced, retired, log, last>>

\* the read of p.history.head that selects the slice to add to
LoadHead(t) ==
    /\ thr[t].pc = "head"
    /\ thr' = [thr EXCEPT ![t].pc = "history", ![t].slot = p.head]
    /\ UNCHANGED <<p, mu, testWait, rot, synced, now, env, calls, errorLogged,
                   traced, retired, log, last>>

\* atomic.AddInt32(&p.history.window[head][idx], cnt), then the deferred RUnlock
AddHistory(t) ==
    /\ thr[t].pc = "history"
    /\ p' = addHistory(p, thr[t].slot, thr[t].idx, thr[t].cnt)
    /\ mu' = [mu EXCEPT !.readers = @ \ {t}]
    /\ thr' = [thr EXCEPT ![t] = IdleThread]
    /\ UNCHANGED <<testWait, rot, synced, now, env, calls, errorLogged,
                   traced, retired, log, last>>

\* mutant of PredictStart: Predict calls tryRotate as AddTrace does
PredictStart_rotates(t) ==
    /\ thr[t].pc = "idle"
    /\ calls < MaxCalls
    /\ \E inputTokens \in env.tokens, ts \in env.times :
         LET inputBucket == token2bucket(inputTokens, p.inputBuckets)
             randRange   == p.inputsSums[inputBucket]
             scanRange   == (inputBucket + 1) * p.outputBuckets
             spawn       == tryRotate(p.headTimestamp, ts) /\ \E r \in RotIds : rot[r].pc = "free"
         IN  /\ rot' = IF spawn
                       THEN [rot EXCEPT ![NewRotator] = [FreeRotator EXCEPT !.pc = "check", !.ts = ts]]
                       ELSE rot
             /\ IF randRange = 0
                THEN \E r \in {0, MaxOutputLen - 1} :
                       thr' = [thr EXCEPT ![t] =
                                 [IdleThread EXCEPT !.ret = coldPredict(inputTokens, r)]]
                ELSE \E cursor \in 0 .. randRange - 1 :
                       thr' = [thr EXCEPT ![t] =
                                 [IdleThread EXCEPT !.pc = "scan",
                                                    !.inputTokens = inputTokens,
                                                    !.inputBucket = inputBucket,
                                                    !.cursor = cursor,
                                                    !.i = scanRange - p.outputBuckets]]
    /\ calls' = calls + 1
    /\ UNCHANGED <<p, mu, testWait, synced, now, env, errorLogged,
                   traced, retired, log, last>>

\* Predict up to the scan: the load of the row sum, the cold prediction or
\* the draw of the cursor
PredictStart(t) ==
    /\ thr[t].pc = "idle"
    /\ calls < MaxCalls
    /\ \E inputTokens \in env.tokens :
         LET inputBucket == token2bucket(inputTokens, p.inputBuckets)
             randRange   == p.inputsSums[inputBucket]
             scanRange   == (inputBucket + 1) * p.outputBuckets
         IN  IF randRange = 0
             THEN \E r \in {0, MaxOutputLen - 1} :
                    thr' = [thr EXCEPT ![t] =
                              [IdleThread EXCEPT !.ret = coldPredict(inputTokens, r)]]
             ELSE \E cursor \in 0 .. randRange - 1 :
                    thr' = [thr EXCEPT ![t] =
                              [IdleThread EXCEPT !.pc = "scan",
                                                 !.inputTokens = inputTokens,
                                                 !.inputBucket = inputBucket,
                                                 !.cursor = cursor,
                                                 !.i = scanRange - p.outputBuckets]]
    /\ calls' = calls + 1
    /\ UNCHANGED <<p, mu, testWait, rot, synced, now, env, errorLogged,
                   traced, retired, log, last>>

\* one iteration of the scan of Predict; after the last one, the fallback
PredictScan(t) ==
    /\ thr[t].pc = "scan"
    /\ LET scanRange == (thr[t].inputBucket + 1) * p.outputBuckets
           acc == thr[t].accumulation + p.inputs[thr[t].i]
       IN  thr' = [thr EXCEPT ![t] =
             IF thr[t].cursor < acc
             THEN [IdleThread EXCEPT !.ret = 2 ^ (thr[t].i - scanRange + p.outputBuckets)]
             ELSE IF thr[t].i + 1 < scanRange
                  THEN [@ EXCEPT !.accumulation = acc, !.i = @ + 1]
                  ELSE [IdleThread EXCEPT !.ret = 2 ^ (p.outputBuckets - 1)]]
    /\ UNCHANGED <<p, mu, testWait, rot, synced, now, env, calls, errorLogged,
                   traced, retired, log, last>>

\* ------------------------------------------------------------------------
\* The rotate goroutines, step by step
\* ------------------------------------------------------------------------
\* the end of rotate: the deferred Unlock (when it holds the lock) and Done
rotateReturn(r, locked) ==
    /\ rot' = [rot EXCEPT ![r] = FreeRotator]
    /\ mu' = IF locked THEN [mu EXCEPT !.w = 0] ELSE mu
    /\ testWait' = IF p.testing THEN testWait - 1 ELSE testWait

\* mutant of RotateCheck: the return of the failed check skips testWait.Done()
RotateCheck_noDone(r) ==
    /\ rot[r].pc = "check"
    /\ IF rotateNoSpare(p)
       THEN /\ errorLogged' = TRUE
            /\ rot' = [rot EXCEPT ![r] = FreeRotator]
            /\ UNCHANGED <<mu, testWait>>
       ELSE /\ rot' = [rot EXCEPT ![r].pc = "lock"]
            /\ UNCHANGED <<mu, testWait, errorLogged>>
    /\ UNCHANGED <<p, thr, synced, now, env, calls, traced, retired, log, last>>

\* the check of history.Size() before the lock is taken
RotateCheck(r) ==
    /\ rot[r].pc = "check"
    /\ IF rotateNoSpare(p)
       THEN /\ errorLogged' = TRUE
            /\ rotateReturn(r, FALSE)
       ELSE /\ rot' = [rot EXCEPT ![r].pc = "lock"]
            /\ UNCHANGED <<mu, testWait, errorLogged>>
    /\ UNCHANGED <<p, thr, synced, now, env, calls, traced, retired, log, last>>

\* mutant of RotateLock: the lock is granted while another rotate holds it
RotateLock_noWait(r) ==
    /\ rot[r].pc = "lock"
    /\ mu' = [mu EXCEPT !.w = r]
    /\ rot' = [rot EXCEPT ![r].pc = "drain"]
    /\ UNCHANGED <<p, testWait, thr, synced, now, env, calls, errorLogged,
                   traced, retired, log, last>>

\* p.mu.Lock(), first half: it becomes the pending writer, new readers block
RotateLock(r) ==
    /\ rot[r].pc = "lock"
    /\ mu.w = 0
    /\ mu' = [mu EXCEPT !.w = r]
    /\ rot' = [rot EXCEPT ![r].pc = "drain"]
    /\ UNCHANGED <<p, testWait, thr, synced, now, env, calls, errorLogged,
                   traced, retired, log, last>>

\* mutant of RotateDrain: the lock is granted while readers hold it
RotateDrain_noWait(r) ==
    /\ rot[r].pc = "drain"
    /\ rot' = [rot EXCEPT ![r].pc = "forward"]
    /\ UNCHANGED <<p, mu, testWait, thr, synced, now, env, calls, errorLogged,
                   traced, retired, log, last>>

\* p.mu.Lock(), second half: it waits for the readers to leave
RotateDrain(r) ==
    /\ rot[r].pc = "drain"
    /\ mu.readers = {}
    /\ rot' = [rot EXCEPT ![r].pc = "forward"]
    /\ UNCHANGED <<p, mu, testWait, thr, synced, now, env, calls, errorLogged,
                   traced, retired, log, last>>

\* p.history.forwardLocked(ts) and the return when nothing was forwarded
RotateForward(r) ==
    /\ rot[r].pc = "forward"
    /\ LET f == forwardLocked(p, rot[r].ts)
       IN  IF f.forwarded = 0
           THEN /\ rotateReturn(r, TRUE)
                /\ UNCHANGED p
           ELSE /\ p' = f.q
                /\ rot' = [rot EXCEPT ![r].pc = "loop"]
                /\ UNCHANGED <<mu, testWait>>
    /\ UNCHANGED <<thr, synced, now, env, calls, errorLogged, traced, retired, log, last>>

\* the condition of the loop of rotate; the return when it ends
RotateLoop(r) ==
    /\ rot[r].pc = "loop"
    /\ IF rotateMustReset(p)
       THEN /\ rot' = [rot EXCEPT ![r].pc = IF HistLen(Tail(p)) - 1 > 0 THEN "sums" ELSE "skip",
                                  ![r].i = 0, ![r].inputBucket = 0,
                                  ![r].leftOutputBucket = p.outputBuckets]
            /\ retired' = TRUE
            /\ UNCHANGED <<mu, testWait>>
       ELSE /\ rotateReturn(r, TRUE)
            /\ UNCHANGED retired
    /\ UNCHANGED <<p, thr, synced, now, env, calls, errorLogged, traced, log, last>>

\* atomic.AddInt32(&sums[inputBucket], -hist[i]) of reset
ResetSums(r) ==
    /\ rot[r].pc = "sums"
    /\ p' = resetSums(p, p.tail, rot[r].i, rot[r].inputBucket)
    /\ rot' = [rot EXCEPT ![r].pc = "dist"]
    /\ UNCHANGED <<mu, testWait, thr, synced, now, env, calls, errorLogged,
                   traced, retired, log, last>>

\* atomic.AddInt32(&distributions[i], -hist[i]) of reset
ResetDistributions(r) ==
    /\ rot[r].pc = "dist"
    /\ p' = resetDistributions(p, p.tail, rot[r].i)
    /\ rot' = [rot EXCEPT ![r].pc = "cell"]
    /\ UNCHANGED <<mu, testWait, thr, synced, now, env, calls, errorLogged,
                   traced, retired, log, last>>

\* hist[i] = 0 of reset and the bookkeeping of its loop
ResetCell(r) ==
    /\ rot[r].pc = "cell"
    /\ p' = resetCell(p, p.tail, rot[r].i)
    /\ LET wrap == rot[r].leftOutputBucket - 1 = 0
       IN  rot' = [rot EXCEPT ![r].pc = IF rot[r].i + 1 < HistLen(Tail(p)) - 1
                                         THEN "sums" ELSE "skip",
                              ![r].i = @ + 1,
                              ![r].inputBucket = IF wrap THEN @ + 1 ELSE @,
                              ![r].leftOutputBucket = IF wrap THEN p.outputBuckets ELSE @ - 1]
    /\ UNCHANGED <<mu, testWait, thr, synced, now, env, calls, errorLogged,
                   traced, retired, log, last>>

\* the reset of the skip slot, then the rest of resetTail
ResetSkip(r) ==
    /\ rot[r].pc = "skip"
    /\ p' = advanceTail(resetCell(p, p.tail, rot[r].i))
    /\ rot' = [rot EXCEPT ![r] = [FreeRotator EXCEPT !.pc = "loop", !.ts = rot[r].ts]]
    /\ UNCHANGED <<mu, testWait, thr, synced, now, env, calls, errorLogged,
                   traced, retired, log, last>>

Next ==
    \/ \E t \in Threads :
         \/ AddTraceWithTimestamp(t)
         \/ RLock(t)
         \/ AddInputs(t)
         \/ AddInputsSums(t)
         \/ LoadHead(t)
         \/ AddHistory(t)
         \/ PredictStart(t)
         \/ PredictScan(t)
    \/ \E r \in RotIds :
         \/ RotateCheck(r)
         \/ RotateLock(r)
         \/ RotateDrain(r)
         \/ RotateForward(r)
         \/ RotateLoop(r)
         \/ ResetSums(r)
         \/ ResetDistributions(r)
         \/ ResetCell(r)
         \/ ResetSkip(r)

\* the maxOutputTokens the small predictor is made with
SmallMaxOutputTokens == 3

\* a predictor for up to 3 input and 3 output tokens (2 x 2 buckets) over a
\* window of 20 s (3 slots)
SmallPredictor == NewSimpleOutputPredictor(3, SmallMaxOutputTokens, 20, 0)

\* the arguments of the calls: (input, output) tokens of a trace, its count,
\* its timestamp; the input tokens of Predict
SmallEnv ==
    [traces |-> {<<1, 3>>, <<3, 1>>}, counts |-> {1}, times |-> {0, 10, 20, 30},
     tokens |-> {1, 3}]

Init == InitWith(SmallPredictor, SmallEnv)

Spec == Init /\ [][Next]_vars

\* the same predictor with the testing switch on: AddTraceWithTimestamp
\* waits at p.testWait before it takes the read lock
TestNext == Next \/ \E t \in Threads : TestWait(t)

TestInit == InitWith([SmallPredictor EXCEPT !.testing = TRUE], SmallEnv)

TestSpec == TestInit /\ [][TestNext]_vars

\* a step of caller t that waits for nothing but the scheduler
CallerStep(t) ==
    \/ TestWait(t)
    \/ AddInputs(t)
    \/ AddInputsSums(t)
    \/ LoadHead(t)
    \/ AddHistory(t)
    \/ PredictScan(t)

\* a step of rotate goroutine r other than the first half of Lock
RotateStep(r) ==
    \/ RotateCheck(r)
    \/ RotateDrain(r)
    \/ RotateForward(r)
    \/ RotateLoop(r)
    \/ ResetSums(r)
    \/ ResetDistributions(r)
    \/ ResetCell(r)
    \/ ResetSkip(r)

\* the scheduling of the goroutines: a goroutine that can take its next
\* step takes it in the end; a goroutine blocked at RLock or Lock gets the
\* lock in the end when the lock is free again and again (sync.RWMutex
\* hands the lock to the blocked readers at Unlock, and a blocked Lock
\* keeps new readers out).  Callers need not call again.
Fairness ==
    /\ \A t \in Threads : WF_vars(CallerStep(t)) /\ SF_vars(RLock(t))
    /\ \A r \in RotIds : WF_vars(RotateStep(r)) /\ SF_vars(RotateLock(r))

\* the arguments of the calls of the fair specification
LiveEnv ==
    [traces |-> {<<1, 3>>}, counts |-> {1}, times |-> {0, 10, 30}, tokens |-> {1}]

\* the small predictor with the testing switch on or off
LiveInit ==
    \E testing \in BOOLEAN :
      InitWith([SmallPredictor EXCEPT !.testing = testing], LiveEnv)

LiveSpec == LiveInit /\ [][TestNext]_vars /\ Fairness

\* ------------------------------------------------------------------------
\* One caller with the testing switch on: every call runs from start to
\* end, and the rotate that a call starts is over before the call adds
\* (p.testWait.Wait()).  AddTrace stamps the trace with time.Now().
\* ------------------------------------------------------------------------
\* AddTraceWithTimestamp from start to end, the rotate it starts included
addTrace(q, inputTokens, outputTokens, cnt, ts) ==
    LET q1 == IF tryRotate(q.headTimestamp, ts) THEN rotate(q, ts) ELSE q
        inputBucket == token2bucket(inputTokens, q1.inputBuckets)
        idx == bucket2idx(q1, inputBucket, token2bucket(outputTokens, q1.outputBuckets))
    IN  addHistory(addInputsSums(addInputs(q1, idx, cnt), inputBucket, cnt), q1.head, idx, cnt)

AddTrace ==
    /\ calls < MaxSeqCalls
    /\ \E trace \in env.traces, cnt \in env.counts :
         LET idx == bucket2idx(p, token2bucket(trace[1], p.inputBuckets),
                               token2bucket(trace[2], p.outputBuckets))
         IN  /\ p' = addTrace(p, trace[1], trace[2], cnt, now)
             /\ errorLogged' = (errorLogged \/ (tryRotate(p.headTimestamp, now) /\ rotateNoSpare(p)))
             /\ traced' = [traced EXCEPT ![idx] = @ + cnt]
             /\ retired' = (retired \/ p'.tail # p.tail)
             /\ log' = [k \in 1 .. Cardinality(DOMAIN log) + 1 |->
                          IF k \in DOMAIN log THEN log[k]
                          ELSE [inputTokens |-> trace[1], outputTokens |-> trace[2],
                                cnt |-> cnt, ts |-> now]]
             /\ last' = [NoCall EXCEPT !.op = "AddTrace", !.inputTokens = trace[1],
                                       !.outputTokens = trace[2], !.cnt = cnt, !.ts = now,
                                       !.forwarded =
                                           IF tryRotate(p.headTimestamp, now) /\ ~rotateNoSpare(p)
                                           THEN forwardLocked(p, now).forwarded ELSE 0]
    /\ calls' = calls + 1
    /\ UNCHANGED <<mu, testWait, thr, rot, synced, now, env>>

PredictCall ==
    /\ calls < MaxSeqCalls
    /\ \E inputTokens \in env.tokens, r \in {0, MaxOutputLen - 1} :
         LET randRange == p.inputsSums[token2bucket(inputTokens, p.inputBuckets)]
         IN  \E cursor \in IF randRange = 0 THEN {0} ELSE 0 .. randRange - 1 :
               last' = [NoCall EXCEPT !.op = "Predict", !.inputTokens = inputTokens,
                                      !.ts = now,
                                      !.ret = Predict(p, inputTokens, cursor, r)]
    /\ calls' = calls + 1
    /\ UNCHANGED <<p, mu, testWait, thr, rot, synced, now, env, errorLogged,
                   traced, retired, log>>

\* time passes
Tick ==
    /\ \E later \in env.times : later > now /\ now' = later
    /\ UNCHANGED <<p, mu, testWait, thr, rot, synced, env, calls, errorLogged,
                   traced, retired, log, last>>

SeqNext == AddTrace \/ PredictCall \/ Tick

\* max_input = max_output = 1024 (11 x 11 buckets), window = 60 s (7 slots)
SeqPredictor == [NewSimpleOutputPredictor(1024, 1024, 60, 0) EXCEPT !.testing = TRUE]

SeqEnv ==
    [traces |-> {<<1, 1>>, <<100, 100>>}, counts |-> {0, 1, 5},
     times |-> {0, 35, 80, 95}, tokens |-> {1, 100}]

SeqInit == InitWith(SeqPredictor, SeqEnv)

SeqSpec == SeqInit /\ [][SeqNext]_vars

\* the same caller and predictor with the traces of the sampling scenarios;
\* an AddTrace of count 99 stands for 99 traces of count 1, and the random
\* source draws the cursor among the values of cursors below the row sum
ScenEnv ==
    [traces |-> {<<1000000, 1000000>>, <<200, 400>>, <<50, 50>>, <<50, 500>>},
     counts |-> {1, 99}, times |-> {0, 35}, tokens |-> {0, 50, 200, 1000000},
     cursors |-> {0, 1, 50, 98, 99, 100, 197}]

\* Predict from start to end; the call recorded with the cursor it drew
PredictCursor ==
    /\ calls < MaxSeqCalls
    /\ \E inputTokens \in env.tokens, r \in {0, MaxOutputLen - 1} :
         LET randRange == p.inputsSums[token2bucket(inputTokens, p.inputBuckets)]
         IN  \E cursor \in IF randRange = 0 THEN {0}
                            ELSE (0 .. randRange - 1) \cap env.cursors :
               last' = [op |-> "Predict", inputTokens |-> inputTokens, ts |-> now,
                        cursor |-> cursor,
                        ret |-> Predict(p, inputTokens, cursor, r)]
    /\ calls' = calls + 1
    /\ UNCHANGED <<p, mu, testWait, thr, rot, synced, now, env, errorLogged,
                   traced, retired, log>>

ScenNext == AddTrace \/ PredictCursor \/ Tick

ScenInit == InitWith(SeqPredictor, ScenEnv)

ScenSpec == ScenInit /\ [][ScenNext]_vars

\* ------------------------------------------------------------------------
\* One caller with the testing switch off that also calls rotate(ts) itself,
\* with any timestamp; every call runs from start to end, and the rotate
\* that an AddTrace starts runs at its runtime.Gosched().
\* ------------------------------------------------------------------------
RotateCall ==
    /\ calls < MaxSeqCalls
    /\ \E ts \in env.times :
         /\ p' = rotate(p, ts)
         /\ errorLogged' = (errorLogged \/ rotateNoSpare(p))
         /\ retired' = (retired \/ p'.tail # p.tail)
         /\ last' = [NoCall EXCEPT !.op = "rotate", !.ts = ts,
                                   !.forwarded = IF rotateNoSpare(p) THEN 0
                                                 ELSE forwardLocked(p, ts).forwarded,
                                   !.ret = IF rotateNoSpare(p) THEN 0 ELSE 1]
    /\ calls' = calls + 1
    /\ UNCHANGED <<mu, testWait, thr, rot, synced, now, env, traced, log>>

RotNext == AddTrace \/ RotateCall \/ Tick

RotInit == InitWith(NewSimpleOutputPredictor(1024, 1024, 60, 0), SeqEnv)

RotSpec == RotInit /\ [][RotNext]_vars

\* ------------------------------------------------------------------------
\* One caller with the testing switch on, on a predictor made from any of
\* the configurations of env.configs, zero sizes and a zero window among
\* them.  A call that indexes outside a slice panics; a call that waits for
\* a rotate that never ends never returns.
\* ------------------------------------------------------------------------
\* tryRotate(ts) starts a rotate whose loop never ends: on a ring of one
\* slot the loop condition is Size() >= 0, and resetTail zeroes the skip
\* count that it then subtracts from the size
rotateNeverEnds(q, ts) ==
    /\ tryRotate(q.headTimestamp, ts)
    /\ ~rotateNoSpare(q)
    /\ RingLen(q) = 1

\* p.inputs[idx] or p.inputsSums[inputBucket] of AddTraceWithTimestamp is
\* out of range
addTracePanics(q, inputTokens, outputTokens) ==
    LET inputBucket == token2bucket(inputTokens, q.inputBuckets)
        idx == bucket2idx(q, inputBucket, token2bucket(outputTokens, q.outputBuckets))
    IN  idx \notin DOMAIN q.inputs \/ inputBucket \notin DOMAIN q.inputsSums

\* p.inputsSums[inputBucket] of Predict is out of range
predictPanics(q, inputTokens) ==
    token2bucket(inputTokens, q.inputBuckets) \notin DOMAIN q.inputsSums

CfgAddTrace ==
    /\ thr[1].pc = "idle"
    /\ calls < MaxSeqCalls
    /\ \E trace \in env.traces, cnt \in env.counts :
         IF rotateNeverEnds(p, now)
         THEN \* the rotate spins in its loop with the lock held; the caller waits
              /\ p' = resetTail(forwardLocked(p, now).q)
              /\ rot' = [rot EXCEPT ![1] = [FreeRotator EXCEPT !.pc = "loop", !.ts = now]]
              /\ mu' = [mu EXCEPT !.w = 1]
              /\ testWait' = testWait + 1
              /\ thr' = [thr EXCEPT ![1] = [IdleThread EXCEPT !.pc = "wait",
                                                              !.inputTokens = trace[1],
                                                              !.outputTokens = trace[2],
                                                              !.cnt = cnt, !.ts = now]]
              /\ retired' = TRUE
              /\ UNCHANGED <<errorLogged, traced, log, last>>
         ELSE IF addTracePanics(p, trace[1], trace[2])
         THEN /\ p' = IF tryRotate(p.headTimestamp, now) THEN rotate(p, now) ELSE p
              /\ thr' = [thr EXCEPT ![1] = [IdleThread EXCEPT !.pc = "panic",
                                                              !.inputTokens = trace[1],
                                                              !.outputTokens = trace[2],
                                                              !.cnt = cnt, !.ts = now]]
              /\ errorLogged' = (errorLogged \/ (tryRotate(p.headTimestamp, now) /\ rotateNoSpare(p)))
              /\ retired' = (retired \/ p'.tail # p.tail)
              /\ UNCHANGED <<mu, testWait, rot, traced, log, last>>
         ELSE LET idx == bucket2idx(p, token2bucket(trace[1], p.inputBuckets),
                                    token2bucket(trace[2], p.outputBuckets))
              IN  /\ p' = addTrace(p, trace[1], trace[2], cnt, now)
                  /\ errorLogged' = (errorLogged \/ (tryRotate(p.headTimestamp, now) /\ rotateNoSpare(p)))
                  /\ traced' = [traced EXCEPT ![idx] = @ + cnt]
                  /\ retired' = (retired \/ p'.tail # p.tail)
                  /\ log' = [k \in 1 .. Cardinality(DOMAIN log) + 1 |->
                               IF k \in DOMAIN log THEN log[k]
                               ELSE [inputTokens |-> trace[1], outputTokens |-> trace[2],
                                     cnt |-> cnt, ts |-> now]]
                  /\ last' = [NoCall EXCEPT !.op = "AddTrace", !.inputTokens = trace[1],
                                            !.outputTokens = trace[2], !.cnt = cnt, !.ts = now,
                                            !.forwarded =
                                                IF tryRotate(p.headTimestamp, now) /\ ~rotateNoSpare(p)
                                                THEN forwardLocked(p, now).forwarded ELSE 0]
                  /\ UNCHANGED <<mu, testWait, thr, rot>>
    /\ calls' = calls + 1
    /\ UNCHANGED <<synced, now, env>>

CfgPredict ==
    /\ thr[1].pc = "idle"
    /\ calls < MaxSeqCalls
    /\ \E inputTokens \in env.tokens, r \in {0, MaxOutputLen - 1} :
         IF predictPanics(p, inputTokens)
         THEN /\ thr' = [thr EXCEPT ![1] = [IdleThread EXCEPT !.pc = "panic",
                                                              !.inputTokens = inputTokens]]
              /\ UNCHANGED last
         ELSE LET randRange == p.inputsSums[token2bucket(inputTokens, p.inputBuckets)]
              IN  /\ \E cursor \in IF randRange = 0 THEN {0} ELSE 0 .. randRange - 1 :
                       last' = [NoCall EXCEPT !.op = "Predict", !.inputTokens = inputTokens,
                                              !.ts = now,
                                              !.ret = Predict(p, inputTokens, cursor, r)]
                  /\ UNCHANGED thr
    /\ calls' = calls + 1
    /\ UNCHANGED <<p, mu, testWait, rot, synced, now, env, errorLogged,
                   traced, retired, log>>

CfgNext == CfgAddTrace \/ CfgPredict \/ Tick

\* the arguments of NewSimpleOutputPredictor
CfgConfigs ==
    [maxInputTokens : {0, 3}, maxOutputTokens : {0, 3}, window : {0, 20}]

CfgEnv ==
    [traces |-> {<<1, 3>>, <<3, 1>>}, counts |-> {1, 5}, times |-> {0, 10, 30},
     tokens |-> {1, 3}, configs |-> CfgConfigs]

\* NewSimpleOutputPredictor returns a predictor for every configuration
CfgInit ==
    \E c \in CfgConfigs :
      InitWith([NewSimpleOutputPredictor(c.maxInputTokens, c.maxOutputTokens, c.window, 0)
                  EXCEPT !.testing = TRUE],
               [CfgEnv EXCEPT !.configs = {c}])

CfgSpec == CfgInit /\ [][CfgNext]_vars

\* ------------------------------------------------------------------------
\* token2bucket by itself: the caller applies it to any token count, also
\* zero and negative ones, and any limit of at least 1.
\* ------------------------------------------------------------------------
Token2Bucket ==
    /\ \E tokens \in -2 .. MaxBucketTokens, limit \in 1 .. MaxBucketLimit :
         last' = [op |-> "token2bucket", tokens |-> tokens, limit |-> limit,
                  ret |-> token2bucket(tokens, limit)]
    /\ UNCHANGED <<p, mu, testWait, thr, rot, synced, now, env, calls, errorLogged,
                   traced, retired, log>>

BucketInit == InitWith(SmallPredictor, SmallEnv)

BucketSpec == BucketInit /\ [][Token2Bucket]_vars

\* ------------------------------------------------------------------------
\* Properties
\* ------------------------------------------------------------------------
\* the sum of f[x] over x in S
RECURSIVE SumOver(_, _)
SumOver(f, S) ==
    IF S = {} THEN 0
    ELSE LET x == CHOOSE y \in S : TRUE IN f[x] + SumOver(f, S \ {x})

\* the ring positions from tail to head, both included
LiveSlots(q) ==
    {(q.tail + k) % RingLen(q) : k \in 0 .. ((q.head - q.tail) % RingLen(q))}

\* the sum of cell c over the live slices
LiveSum(q, c) == SumOver([s \in LiveSlots(q) |-> q.window[s][c]], LiveSlots(q))

\* the summary cells of row i
RowCells(q, i) == {bucket2idx(q, i, j) : j \in 0 .. q.outputBuckets - 1}

\* a rotate goroutine is between Lock and Unlock
LockedPcs == {"forward", "loop", "sums", "dist", "cell", "skip"}

\* no AddTrace and no rotate is in progress (a Predict may be)
AtRest ==
    /\ \A t \in Threads : thr[t].pc \in {"idle", "scan"}
    /\ \A r \in RotIds : rot[r].pc = "free"

\* C1: at rest, every summary cell equals the sum of that cell over the
\* live slices (the ring positions from tail to head).
C1_SummaryIsLiveSum ==
    AtRest => \A c \in DOMAIN p.inputs : p.inputs[c] = LiveSum(p, c)

\* C1 witness: at rest after a tail slice with a count was reset, with a
\* later count of the same cell left in the summary and two live slices
C1_Witness ==
    /\ AtRest
    /\ retired
    /\ p.head # p.tail
    /\ \E c \in DOMAIN p.inputs : p.inputs[c] > 0 /\ p.inputs[c] < traced[c]

\* C2: at rest, every row sum equals the sum of the summary cells of its row.
C2_RowSumIsRowTotal ==
    AtRest => \A i \in DOMAIN p.inputsSums :
                p.inputsSums[i] = SumOver(p.inputs, RowCells(p, i))

\* C2 witness: at rest after a tail with a count in the second row was
\* reset, with a count left in the first row
C2_Witness ==
    /\ AtRest
    /\ retired
    /\ p.inputsSums[0] > 0
    /\ p.inputsSums[1] = 0
    /\ \E c \in RowCells(p, 1) : traced[c] > 0

\* the window the ring was sized for, when it is a multiple of the interval
WindowOf(q) == (RingLen(q) - 1) * MovingInterval

\* every summary counter is zero
SummaryIsZero(q) ==
    /\ \A c \in DOMAIN q.inputs : q.inputs[c] = 0
    /\ \A i \in DOMAIN q.inputsSums : q.inputsSums[i] = 0

\* the summary holds the count of the AddTrace call e and nothing else
SummaryIsOnly(q, e) ==
    LET inputBucket == token2bucket(e.inputTokens, q.inputBuckets)
        idx == bucket2idx(q, inputBucket, token2bucket(e.outputTokens, q.outputBuckets))
    IN  /\ \A c \in DOMAIN q.inputs : q.inputs[c] = IF c = idx THEN e.cnt ELSE 0
        /\ \A i \in DOMAIN q.inputsSums :
             q.inputsSums[i] = IF i = inputBucket THEN e.cnt ELSE 0

\* Predict returns the cold value for the input tokens, whatever it draws
PredictsCold(q, inputTokens) ==
    \A r \in {0, MaxOutputLen - 1} :
      Predict(q, inputTokens, 0, r) = coldPredict(inputTokens, r)

LogLen == Cardinality(DOMAIN log)

\* C3 as stated: once the clock is at least window + interval past the last
\* AddTrace, with no AddTrace since, the summary is all zero, size() is 0
\* and Predict for the trace's input returns the cold value.
C3_Original ==
    (/\ last.op = "AddTrace"
     /\ last.cnt > 0
     /\ now - last.ts >= WindowOf(p) + MovingInterval)
    => /\ SummaryIsZero(p)
       /\ Size(p) = 0
       /\ PredictsCold(p, last.inputTokens)

\* C3 amended: the time that passes changes nothing by itself; it is the
\* next AddTrace, stamped at least window + interval after the one before,
\* whose rotation retires everything older: after it the summary holds its
\* own count only (all zero for a count of 0), size() is 0 and Predict for
\* the older trace's input returns the cold value unless the new count is
\* in that row.
C3_ExpiredByNextTrace ==
    (/\ last.op = "AddTrace"
     /\ LogLen >= 2
     /\ log[LogLen].ts - log[LogLen - 1].ts >= WindowOf(p) + MovingInterval)
    => /\ SummaryIsOnly(p, log[LogLen])
       /\ Size(p) = 0
       /\ p.tail = p.head
       /\ (\/ log[LogLen].cnt > 0 /\ token2bucket(log[LogLen].inputTokens, p.inputBuckets)
                                     = token2bucket(log[LogLen - 1].inputTokens, p.inputBuckets)
           \/ PredictsCold(p, log[LogLen - 1].inputTokens))

\* C3 witness: add_trace_at(100, 100, 5) at t = 0, then an AddTrace of
\* count 0 at t = 80
C3_Witness ==
    /\ last.op = "AddTrace"
    /\ LogLen = 2
    /\ log[1] = [inputTokens |-> 100, outputTokens |-> 100, cnt |-> 5, ts |-> 0]
    /\ log[2].cnt = 0
    /\ log[2].ts = 80

\* the sparse scenario: add_trace_at(1, 1, 1) at t = 0 and at t = 35, then
\* the rotation for timestamp ts (started by an AddTrace of count 0)
SparseScenario(ts) ==
    /\ LogLen = 3
    /\ log[1] = [inputTokens |-> 1, outputTokens |-> 1, cnt |-> 1, ts |-> 0]
    /\ log[2] = [inputTokens |-> 1, outputTokens |-> 1, cnt |-> 1, ts |-> 35]
    /\ log[3] = [inputTokens |-> 1, outputTokens |-> 1, cnt |-> 0, ts |-> ts]

\* C4 as stated: after the rotation for t = 95 the summary holds exactly the
\* trace of t = 35.
C4_Original ==
    SparseScenario(95) => SummaryIsOnly(p, log[2])

\* C4 amended: the summary holds exactly the trace of t = 35 after the
\* rotation for t = 80; after the rotation for t = 95 the trace of t = 35 is
\* removed too (its slice began at 30 s, a whole window before the head
\* slice of 90 s), and the summary is all zero.
C4_SparseRotation ==
    /\ SparseScenario(80) => SummaryIsOnly(p, log[2])
    /\ SparseScenario(95) => SummaryIsZero(p)

\* C4 witness: the scenario with the rotation for t = 95 done
C4_Witness == SparseScenario(95) /\ p.headTimestamp = 90

\* C5: once every AddTrace has returned and no tail was reset, each summary
\* cell and each cell summed over the slices holds the sum of the counts
\* added to it, each row sum the sum of the counts of its row, and while
\* nothing was forwarded the head slice holds them all.
C5_NoLostUpdate ==
    (AtRest /\ ~retired)
    => /\ \A c \in DOMAIN p.inputs :
            /\ p.inputs[c] = traced[c]
            /\ SumOver([s \in DOMAIN p.window |-> p.window[s][c]], DOMAIN p.window) = traced[c]
            /\ (p.head = 0 => Head(p)[c] = traced[c])
       /\ \A i \in DOMAIN p.inputsSums :
            p.inputsSums[i] = SumOver(traced, RowCells(p, i))

\* C5 witness: two AddTrace calls are between their increments at the same
\* time, on the same cell, and the summary cell and the row sum already
\* hold both counts
C5_Witness ==
    \E t1, t2 \in Threads :
      /\ t1 # t2
      /\ {t1, t2} \subseteq mu.readers
      /\ thr[t1].idx = thr[t2].idx
      /\ thr[t1].pc = "head"
      /\ thr[t2].pc = "head"
      /\ ~retired
      /\ p.inputs[thr[t1].idx] = thr[t1].cnt + thr[t2].cnt
      /\ p.inputsSums[thr[t1].inputBucket] = thr[t1].cnt + thr[t2].cnt

\* C6: the slice an AddTrace increments is the head at the moment of the
\* increment, and no rotate is inside its locked section then.
C6_AddsToHead ==
    [][\A t \in Threads :
         (thr[t].pc = "history" /\ thr'[t].pc = "idle")
         => /\ thr[t].slot = p.head
            /\ thr[t].slot \in LiveSlots(p)
            /\ thr[t].slot # (p.head + 1) % RingLen(p)
            /\ \A r \in RotIds : rot[r].pc \notin LockedPcs]_vars

\* C6 witness: an AddTrace is about to increment the head slice of a ring
\* that was rotated, while a rotate waits for the lock
C6_Witness ==
    \E t \in Threads :
      /\ thr[t].pc = "history"
      /\ thr[t].slot = p.head
      /\ p.head # 0
      /\ \E r \in RotIds : rot[r].pc = "drain"

\* what a reset has subtracted from summary cell c and not yet zeroed in
\* the tail slice
PendingReset(c) ==
    IF \E r \in RotIds : rot[r].pc = "cell" /\ rot[r].i = c THEN Tail(p)[c] ELSE 0

\* C7 as stated: in every state every summary cell is at least the sum of
\* the cell over the slices from tail to head.
C7_Original ==
    \A c \in DOMAIN p.inputs : p.inputs[c] >= LiveSum(p, c)

\* C7 amended: it holds in every state, the states between the steps of
\* AddTrace included, except for the one cell that a reset has subtracted
\* from the summary and not yet zeroed in the tail slice: that summary cell
\* is below the live sum by the value of the tail cell.
C7_SummaryCoversLiveSlices ==
    \A c \in DOMAIN p.inputs : p.inputs[c] + PendingReset(c) >= LiveSum(p, c)

\* C7 witness: an AddTrace has incremented the summary cell and not yet the
\* head slice, in a ring whose tail was reset
C7_Witness ==
    /\ retired
    /\ \E t \in Threads :
         /\ thr[t].pc \in {"sums", "head", "history"}
         /\ p.inputs[thr[t].idx] > LiveSum(p, thr[t].idx)
         /\ LiveSum(p, thr[t].idx) > 0

\* C8 as stated: in every state the size is at most ring capacity - 1.
C8_Original == Size(p) <= RingLen(p) - 1

\* C8 amended: the size is at most ring capacity - 1 in every state in
\* which no rotate is between its forwardLocked and the end of its reset
\* loop; in between it exceeds it when several intervals are forwarded.
C8_SizeBoundedOutsideRotate ==
    (\A r \in RotIds : rot[r].pc \notin (LockedPcs \ {"forward"}))
    => Size(p) <= RingLen(p) - 1

\* C8 witness: a rotate that forwarded more intervals than the ring has
\* slots has returned
C8_Witness ==
    /\ \A r \in RotIds : rot[r].pc = "free"
    /\ retired
    /\ getSkipped(Head(p)) >= RingLen(p)
    /\ Size(p) = 0

\* C9: no rotate takes the branch that logs the error and gives up.
C9_NeverNoSpare == ~errorLogged

\* the position after head
SpareSlot(q) == (q.head + 1) % RingLen(q)

\* C10: while no rotate holds the lock, head and tail differ if the size is
\* positive, and the position after head is not among those from tail to
\* head and all its counter cells are zero.
C10_SpareSlot ==
    (\A r \in RotIds : rot[r].pc \notin LockedPcs)
    => /\ (Size(p) > 0 => p.head # p.tail)
       /\ SpareSlot(p) \notin LiveSlots(p)
       /\ \A c \in DOMAIN p.inputs : p.window[SpareSlot(p)][c] = 0

\* C10 witness: no rotate holds the lock, the size is positive, and the
\* position after head is a slice that held a count and was reset
C10_Witness ==
    /\ \A r \in RotIds : rot[r].pc \notin LockedPcs
    /\ Size(p) > 0
    /\ retired
    /\ SpareSlot(p) = 0
    /\ p.tail # 0
    /\ \E c \in DOMAIN p.inputs : traced[c] > p.inputs[c]

\* C11: a call of rotate(ts) that directly follows a completed call of
\* rotate with the same ts changes nothing: head, tail, head timestamp,
\* size, every slice and the summary stay as the first call left them.
C11_RotateIdempotent ==
    [][(last.op = "rotate" /\ last'.op = "rotate" /\ last'.ts = last.ts
        /\ calls' = calls + 1)
       => p' = p]_vars

\* C11 witness: after add_trace(100, 100, 5) at t = 0, rotate(80) forwarded
\* the head and reset the slice of the trace, and a second rotate(80)
\* returned with nothing forwarded
C11_Witness ==
    /\ LogLen = 1
    /\ log[1] = [inputTokens |-> 100, outputTokens |-> 100, cnt |-> 5, ts |-> 0]
    /\ calls = 3
    /\ last.op = "rotate"
    /\ last.ts = 80
    /\ last.forwarded = 0
    /\ p.headTimestamp = 80
    /\ retired
    /\ SummaryIsZero(p)

\* C12: every Predict returns a positive integer that is at most
\* maxOutputTokens, whether it found the row sum zero (the cold value) or
\* positive (a power of two from the scan or its fallback), whatever
\* AddTrace and rotate do in between its steps.
C12_PredictInRange ==
    [][/\ \A t \in Threads :
            (thr[t].pc \in {"idle", "scan"} /\ thr'[t].pc = "idle" /\ thr'[t] # thr[t])
            => thr'[t].ret \in 1 .. SmallMaxOutputTokens
       /\ \A inputTokens \in env.tokens, r \in {0, MaxOutputLen - 1} :
            p.inputsSums[token2bucket(inputTokens, p.inputBuckets)] = 0
            => coldPredict(inputTokens, r) \in 1 .. SmallMaxOutputTokens]_vars

\* C12 witness: a Predict that found its row populated has returned the
\* top bucket's value while a rotate is resetting a tail slice
C12_Witness ==
    \E t \in Threads :
      /\ thr[t].pc = "idle"
      /\ thr[t].ret = 2 ^ (p.outputBuckets - 1)
      /\ \E r \in RotIds : rot[r].pc \in {"sums", "dist", "cell", "skip"}

\* a rotate goroutine is inside reset, subtracting the tail slice
ResetPcs == {"sums", "dist", "cell", "skip"}

\* an AddTrace is between RLock and RUnlock, at or between its increments
AddingPcs == {"inputs", "sums", "head", "history"}

\* C13 as stated: while a rotate is inside reset, no AddTrace is between its
\* increments and no Predict is between its row-sum load and the end of its
\* scan.
C13_Original ==
    (\E r \in RotIds : rot[r].pc \in ResetPcs)
    => \A t \in Threads : thr[t].pc \notin AddingPcs \cup {"scan"}

\* C13 amended: while a rotate is inside reset, no AddTrace is between its
\* increments; AddTrace is the only reader of the lock (Predict takes no
\* lock and may be in its scan then).
C13_AddTraceExcludedDuringReset ==
    (\E r \in RotIds : rot[r].pc \in ResetPcs)
    => /\ mu.readers = {}
       /\ \A t \in Threads : thr[t].pc \notin AddingPcs

\* C13 witness: a rotate is inside reset while an AddTrace waits for the
\* read lock and a Predict is in its scan
C13_Witness ==
    /\ \E r \in RotIds : rot[r].pc \in ResetPcs
    /\ \E t \in Threads : thr[t].pc = "rlock"
    /\ \E t \in Threads : thr[t].pc = "scan"

\* the rotate goroutines between Lock and Unlock
InsideRotate == {r \in RotIds : rot[r].pc \in LockedPcs}

\* C14: of the rotate goroutines started, at most one is between Lock and
\* Unlock (the section that moves head and tail, changes the head timestamp
\* and zeroes cells), it is the one the lock records as its writer, and no
\* step taken while one is there is an increment of an AddTrace.
C14_SingleRotator ==
    [][/\ Cardinality(InsideRotate) <= 1
       /\ \A r \in InsideRotate : mu.w = r
       /\ InsideRotate # {}
          => \A t \in Threads :
               thr[t].pc \in {"inputs", "sums", "history"} => thr'[t] = thr[t]]_vars

\* C14 witness: two rotate goroutines were started; one is resetting the
\* tail, the other waits for the lock, and an AddTrace waits for the read
\* lock
C14_Witness ==
    /\ \E r1, r2 \in RotIds :
         /\ rot[r1].pc \in ResetPcs
         /\ rot[r2].pc = "lock"
    /\ \E t \in Threads : thr[t].pc = "rlock"

\* zero or negative sizes, or a zero window
ConfigError(c) == c.maxInputTokens <= 0 \/ c.maxOutputTokens <= 0 \/ c.window = 0

\* C15: construction with a configuration error fails: there is no
\* predictor made from such a configuration on which a call of AddTrace or
\* Predict returns.
C15_ConfigErrorFails ==
    (\E c \in env.configs : ConfigError(c)) => last.op = "none"

\* every caller is between calls and no rotate goroutine is running
Quiet ==
    /\ \A t \in Threads : thr[t].pc = "idle"
    /\ \A r \in RotIds : rot[r].pc = "free"

\* C16: under the fair scheduling, with the testing switch on or off, every
\* AddTrace and every Predict that was called returns and every rotate that
\* was started ends: as no more than MaxCalls calls are made, from some
\* point on every caller is between calls and no rotate is running.
C16_CallsReturn == <>[]Quiet

\* C16 witness: an AddTrace waits at the barrier for two rotate goroutines,
\* one resetting the tail with the lock held, the other waiting for the lock
C16_Witness ==
    /\ \E t \in Threads : thr[t].pc = "wait"
    /\ testWait = 2
    /\ \E r1, r2 \in RotIds :
         /\ rot[r1].pc \in ResetPcs
         /\ rot[r2].pc = "lock"

\* the AddTrace calls made are exactly add_trace(1000000, 1000000, 1)
OverflowScenario ==
    /\ LogLen = 1
    /\ log[1].inputTokens = 1000000
    /\ log[1].outputTokens = 1000000
    /\ log[1].cnt = 1

\* the count of the overflow scenario is in the cell of the top input
\* bucket and the top output bucket, and nowhere else
CountInTopBuckets(q) ==
    LET top == bucket2idx(q, q.inputBuckets - 1, q.outputBuckets - 1)
    IN  /\ \A c \in DOMAIN q.inputs : q.inputs[c] = IF c = top THEN 1 ELSE 0
        /\ \A i \in DOMAIN q.inputsSums :
             q.inputsSums[i] = IF i = q.inputBuckets - 1 THEN 1 ELSE 0
        /\ Head(q)[top] = 1

\* C17 as stated: with max_input = max_output = 1024, after
\* add_trace(1000000, 1000000, 1) the count is in the top buckets and
\* predict(1000000) returns at most 512.
C17_Original ==
    OverflowScenario
    => /\ CountInTopBuckets(p)
       /\ (last.op = "Predict" /\ last.inputTokens = 1000000) => last.ret <= 512

\* C17 amended: the count is in the top buckets (index 10 of 11) and
\* predict(1000000) returns 2^(output_buckets - 1), which is 1024, not 512.
C17_OverflowClamp ==
    OverflowScenario
    => /\ p.inputBuckets = 11
       /\ p.outputBuckets = 11
       /\ CountInTopBuckets(p)
       /\ (last.op = "Predict" /\ last.inputTokens = 1000000)
          => last.ret = 2 ^ (p.outputBuckets - 1) /\ last.ret = 1024

\* C17 witness: predict(1000000) has returned after the one trace
C17_Witness ==
    /\ OverflowScenario
    /\ last.op = "Predict"
    /\ last.inputTokens = 1000000
    /\ last.ret = 1024

\* b is round(log2(n)) for n >= 1: 2^(b - 1/2) <= n < 2^(b + 1/2), compared
\* on the squares
IsRoundLog2(b, n) ==
    /\ b >= 0
    /\ (b >= 1 => 2 ^ (2 * b - 1) <= n * n)
    /\ n * n < 2 ^ (2 * b + 1)

\* C18: every result b of token2bucket(n, limit) satisfies 0 <= b < limit,
\* is 0 for n <= 0 and the smaller of round(log2(n)) and limit - 1
\* otherwise; and of two calls with the same limit, the one with the larger
\* n has no smaller result.
C18_Token2BucketMonotone ==
    [][/\ last'.ret >= 0
       /\ last'.ret < last'.limit
       /\ last'.tokens <= 0 => last'.ret = 0
       /\ last'.tokens > 0
          => \E b \in 0 .. FloorLog2(last'.tokens) + 1 :
               /\ IsRoundLog2(b, last'.tokens)
               /\ last'.ret = IF b < last'.limit - 1 THEN b ELSE last'.limit - 1
       /\ (last.op = "token2bucket" /\ last.limit = last'.limit
            /\ last.tokens <= last'.tokens)
          => last.ret <= last'.ret]_vars

\* C18 witness: token2bucket(64, 4) was clamped to 3
C18_Witness ==
    /\ last.op = "token2bucket"
    /\ last.tokens = 64
    /\ last.limit = 4
    /\ last.ret = 3

\* the count of row i of the summary in the output buckets 0 .. j
CumRow(q, i, j) == SumOver(q.inputs, {bucket2idx(q, i, k) : k \in 0 .. j})

\* the AddTrace calls made are those of e, in this order, whatever the time
LogIs(e) ==
    /\ LogLen = Cardinality(DOMAIN e)
    /\ \A k \in DOMAIN e :
         /\ log[k].inputTokens = e[k][1]
         /\ log[k].outputTokens = e[k][2]
         /\ log[k].cnt = e[k][3]

\* C19: a Predict that ran with nothing else in between, found the row sum
\* R of its input bucket positive and drew cursor in [0, R) returns 2^j for
\* the smallest output bucket j whose cumulative row count exceeds cursor;
\* after 99 traces (50, 50) and 1 trace (50, 500), cursor 50 gives 64 and
\* cursor 99 gives 512; after the single trace (200, 400), cursor 0 gives
\* 512.
C19_WeightedSampling ==
    last.op = "Predict"
    => LET i == token2bucket(last.inputTokens, p.inputBuckets)
       IN  /\ p.inputsSums[i] > 0
              => /\ last.cursor \in 0 .. p.inputsSums[i] - 1
                 /\ \E j \in 0 .. p.outputBuckets - 1 :
                      /\ CumRow(p, i, j) > last.cursor
                      /\ (j > 0 => CumRow(p, i, j - 1) <= last.cursor)
                      /\ last.ret = 2 ^ j
           /\ (LogIs(<<(<<50, 50, 99>>), (<<50, 500, 1>>)>>) /\ last.inputTokens = 50)
              => /\ last.cursor = 50 => last.ret = 64
                 /\ last.cursor = 99 => last.ret = 512
           /\ (LogIs(<<(<<200, 400, 1>>)>>) /\ last.inputTokens = 200)
              => (last.cursor = 0 /\ last.ret = 512)

\* C19 witness: after 99 traces (50, 50) and 1 trace (50, 500), Predict(50)
\* drew cursor 99 and returned 512
C19_Witness ==
    /\ LogIs(<<(<<50, 50, 99>>), (<<50, 500, 1>>)>>)
    /\ last.op = "Predict"
    /\ last.inputTokens = 50
    /\ last.cursor = 99
    /\ last.ret = 512

C21_SingleIntervalRowSums ==
    (AtRest /\ p.head = 0 /\ p.headTimestamp = 0)
    => \A i \in DOMAIN p.inputsSums :
         /\ SumOver(p.inputs, RowCells(p, i)) = p.inputsSums[i]
         /\ p.inputsSums[i] = SumOver(traced, RowCells(p, i))

\* C21 witness: three AddTrace calls of the first interval have returned,
\* two for one input bucket and one for the other
C21_Witness ==
    /\ AtRest
    /\ p.head = 0
    /\ p.headTimestamp = 0
    /\ calls = 3
    /\ p.inputsSums[0] + p.inputsSums[1] = 3
    /\ p.inputsSums[0] > 0
    /\ p.inputsSums[1] > 0

\* C22: when no AddTrace and no rotate is in progress, every summary cell,
\* every row sum, every cell of every slice (the skip slot included) and
\* the size are at least 0; the counts of the traces are not negative.
C22_NonNegativeAtRest ==
    AtRest
    => /\ \A cnt \in env.counts : cnt >= 0
       /\ \A c \in DOMAIN p.inputs : p.inputs[c] >= 0
       /\ \A i \in DOMAIN p.inputsSums : p.inputsSums[i] >= 0
       /\ \A s \in DOMAIN p.window : \A c \in DOMAIN p.window[s] : p.window[s][c] >= 0
       /\ Size(p) >= 0

\* C22 witness: at rest after resets that took every count out of the
\* summary again, with the size back at 0 after several intervals
C22_Witness ==
    /\ AtRest
    /\ retired
    /\ \E c \in DOMAIN p.inputs : traced[c] > 0
    /\ SummaryIsZero(p)
    /\ Size(p) = 0
    /\ getSkipped(Head(p)) > 1

\* the AddTrace calls made are add_trace_at(1, 1, 1) at t = 0 and at t = 35
SparseTraces ==
    /\ LogLen = 2
    /\ log[1] = [inputTokens |-> 1, outputTokens |-> 1, cnt |-> 1, ts |-> 0]
    /\ log[2] = [inputTokens |-> 1, outputTokens |-> 1, cnt |-> 1, ts |-> 35]

\* the ring positions from tail up to head, head excluded
LiveBeforeHead(q) == LiveSlots(q) \ {q.head}

\* C23 as stated: in the sparse scenario size() is the number of live
\* slices of the ring (counted without or with the head) and at most 4.
C23_Original ==
    SparseTraces
    => /\ Size(p) \in {Cardinality(LiveBeforeHead(p)), Cardinality(LiveSlots(p))}
       /\ Size(p) <= 4

\* C23 amended: in the sparse scenario size() is 3, the number of intervals
\* from the tail slice's to the head slice's (the skip count of the head:
\* the intervals of 10 s and 20 s have no slice), while one slice is live
\* before the head; size() is at most 4.
C23_SparseSize ==
    SparseTraces
    => /\ Size(p) = 3
       /\ Size(p) = getSkipped(Head(p))
       /\ Size(p) = (p.headTimestamp - 0) \div MovingInterval
       /\ Cardinality(LiveBeforeHead(p)) = 1
       /\ Size(p) <= 4

\* C23 witness: both traces are in, in two slices
C23_Witness ==
    /\ SparseTraces
    /\ p.head = 1
    /\ p.tail = 0
    /\ p.headTimestamp = 30
    /\ Head(p)[0] = 1
    /\ Tail(p)[0] = 1

\* the rotate goroutines started and not yet ended
Rotating == {r \in RotIds : rot[r].pc # "free"}

\* C24: with the testing switch on, the barrier counts the rotate
\* goroutines started and not yet ended, whichever way they end; an
\* AddTrace passes the barrier only when every rotate started so far, its
\* own included, has ended; and, unless a rotate gave up, an AddTrace
\* applies its increments to a head that was forwarded for its timestamp.
C24_BarrierOrdersRotation ==
    [][/\ p.testing
       /\ testWait = Cardinality(Rotating)
       /\ testWait' = Cardinality({r \in RotIds : rot'[r].pc # "free"})
       /\ \A t \in Threads :
            /\ (thr[t].pc = "wait" /\ thr'[t].pc # "wait")
               => (testWait = 0 /\ Rotating = {})
            /\ (thr[t].pc \in {"inputs", "sums", "history"} /\ thr'[t] # thr[t]
                /\ ~errorLogged)
               => thr[t].ts - p.headTimestamp < MovingInterval]_vars

\* C24 witness: a rotate gave up at its size check, the barrier is released
\* again, and an AddTrace whose timestamp called for a rotation is past the
\* barrier, about to apply its increments
C24_Witness ==
    /\ p.testing
    /\ errorLogged
    /\ testWait = 0
    /\ \E t \in Threads :
         /\ thr[t].pc = "inputs"
         /\ thr[t].ts = 30
         /\ p.headTimestamp = 30

\* C25: once the only AddTrace so far has returned and the rotation that its
\* timestamp called for has completed, its count is in the summary and in
\* a live slice, whether the increments came before or after the rotation.
C25_CountedAcrossRotation ==
    (/\ AtRest
     /\ ~p.testing
     /\ ~errorLogged
     /\ SumOver(traced, DOMAIN traced) = 1
     /\ p.headTimestamp >= MovingInterval)
    => \E c \in DOMAIN p.inputs :
         /\ traced[c] = 1
         /\ p.inputs[c] = 1
         /\ LiveSum(p, c) = 1

\* ------------------------------------------------------------------------
\* One caller of AddTraceWithTimestamp and the rotate goroutines it starts,
\* testing off, on the 1024 / 1024 / 60 s predictor with timestamps that are
\* not multiples of the interval; resetTail is one step.
\* ------------------------------------------------------------------------
\* the loop of rotate: its condition, one resetTail, the return at its end
HistRotateLoop(r) ==
    /\ rot[r].pc = "loop"
    /\ IF rotateMustReset(p)
       THEN /\ p' = resetTail(p)
            /\ retired' = TRUE
            /\ UNCHANGED <<rot, mu, testWait>>
       ELSE /\ rotateReturn(r, TRUE)
            /\ UNCHANGED <<p, retired>>
    /\ UNCHANGED <<thr, synced, now, env, calls, errorLogged, traced, log, last>>

HistNext ==
    \/ \E t \in {1} :
         \/ AddTraceWithTimestamp(t)
         \/ RLock(t)
         \/ AddInputs(t)
         \/ AddInputsSums(t)
         \/ LoadHead(t)
         \/ AddHistory(t)
    \/ \E r \in RotIds :
         \/ RotateCheck(r)
         \/ RotateLock(r)
         \/ RotateDrain(r)
         \/ RotateForward(r)
         \/ HistRotateLoop(r)

HistEnv ==
    [traces |-> {<<100, 100>>}, counts |-> {1},
     times |-> {0, 10, 35, 80}, tokens |-> {1}]

HistInit == InitWith(NewSimpleOutputPredictor(1024, 1024, 60, 0), HistEnv)

HistSpec == HistInit /\ [][HistNext]_vars

\* C26: a forwardLocked(ts) with ts less than one interval after the head
\* timestamp returns 0 and changes nothing; otherwise it returns
\* forwarded = floor((ts - headTimestamp) / interval) >= 1, moves head one
\* position on the ring, adds forwarded intervals to the head timestamp,
\* stores forwarded in the skip slot of the new head, adds forwarded to
\* size, and leaves tail, the summary and every counter cell as they were.
C26_ForwardLockedFrame ==
    [][\A r \in RotIds :
         (rot[r].pc = "forward" /\ rot'[r].pc # "forward")
         => IF rot[r].ts - p.headTimestamp < MovingInterval
            THEN /\ p' = p
                 /\ rot'[r].pc = "free"
            ELSE LET forwarded == (rot[r].ts - p.headTimestamp) \div MovingInterval
                 IN  /\ forwarded >= 1
                     /\ rot'[r].pc = "loop"
                     /\ p'.head = (p.head + 1) % RingLen(p)
                     /\ p'.headTimestamp = p.headTimestamp + forwarded * MovingInterval
                     /\ getSkipped(p'.window[p'.head]) = forwarded
                     /\ p'.size = p.size + forwarded
                     /\ p'.tail = p.tail
                     /\ p'.inputs = p.inputs
                     /\ p'.inputsSums = p.inputsSums
                     /\ \A s \in DOMAIN p.window :
                          /\ \A c \in DOMAIN p.inputs : p'.window[s][c] = p.window[s][c]
                          /\ (s # p'.head => p'.window[s] = p.window[s])]_vars

\* C26 witness: a rotate(35 s) has just forwarded three intervals from a
\* head timestamp of 0 over a head slice that holds a count
C26_Witness ==
    \E r \in RotIds :
      /\ rot[r].pc = "loop"
      /\ rot[r].ts = 35
      /\ p.headTimestamp = 30
      /\ p.head = 1
      /\ p.size = 3
      /\ getSkipped(Head(p)) = 3
      /\ \E c \in DOMAIN p.inputs : p.window[0][c] > 0

\* C27: resetTail subtracts every cell of the tail slice from its summary
\* cell and from the row sum of its row, leaves the slice all zero, skip
\* slot included, moves tail one position on the ring and reduces size by
\* the skip count of the new tail; the other slices, head and the head
\* timestamp stay as they were.
C27_ResetTailFrame ==
    [][\A r \in RotIds :
         (rot[r].pc = "loop" /\ p' # p)
         => LET newTail == (p.tail + 1) % RingLen(p)
            IN  /\ \A c \in DOMAIN p.inputs : p'.inputs[c] = p.inputs[c] - Tail(p)[c]
                /\ \A i \in DOMAIN p.inputsSums :
                     p'.inputsSums[i] = p.inputsSums[i] - SumOver(Tail(p), RowCells(p, i))
                /\ \A c \in DOMAIN Tail(p) : p'.window[p.tail][c] = 0
                /\ p'.tail = newTail
                /\ p'.size = p.size - getSkipped(p.window[newTail])
                /\ \A s \in DOMAIN p.window \ {p.tail} : p'.window[s] = p.window[s]
                /\ p'.head = p.head
                /\ p'.headTimestamp = p.headTimestamp]_vars

\* C27 witness: a resetTail has just retired a slice with a count; the new
\* tail stands for three intervals and the head for five
C27_Witness ==
    \E r \in RotIds :
      /\ rot[r].pc = "loop"
      /\ retired
      /\ p.tail = 1
      /\ getSkipped(Tail(p)) = 3
      /\ getSkipped(Head(p)) = 5
      /\ p.size = 5
      /\ \E c \in DOMAIN p.inputs : traced[c] > 0 /\ p.inputs[c] = 0

\* the step is one of a Predict call: its start or an iteration of its scan
PredictStep ==
    \/ /\ calls' = calls + 1
       /\ \A t \in Threads : thr[t].pc = "idle" => thr'[t].pc \in {"idle", "scan"}
    \/ \E t \in Threads : thr[t].pc = "scan" /\ thr'[t] # thr[t]

\* C28: no step of Predict, whether it answers cold, from the scan or
\* through the fallback, changes the predictor (summary, row sums, ring,
\* head, tail, size, head timestamp), and none starts or runs a rotate or
\* takes the lock.
C28_PredictChangesNothing ==
    [][PredictStep
       => /\ p' = p
          /\ rot' = rot
          /\ mu' = mu
          /\ testWait' = testWait
          /\ errorLogged' = errorLogged
          /\ retired' = retired]_vars

\* C28 witness: a Predict is past the first cell of its scan on a rotated
\* ring while a rotate is resetting the tail
C28_Witness ==
    \E t \in Threads, r \in RotIds :
      /\ thr[t].pc = "scan"
      /\ thr[t].i > 0
      /\ rot[r].pc \in {"sums", "dist", "cell", "skip"}
      /\ p.head # 0

\* the cells that the scan of caller t has not loaded yet hold enough for
\* its cursor: the scan will return from inside the loop if none shrinks
ScanSuffices(t) ==
    thr[t].cursor < thr[t].accumulation
                    + SumOver(p.inputs, {c \in RowCells(p, thr[t].inputBucket) : c >= thr[t].i})

\* C29: with non-negative counts, a Predict enters its scan with cells that
\* suffice for its cursor; steps that decrease no summary cell, those of
\* AddTrace among them, keep it so until the scan returns from inside the
\* loop; hence a scan that is bound for the fallback has had a reset
\* subtract from its row after the row sum was loaded, and without a reset
\* no Predict reaches the fallback.
C29_FallbackNeedsReset ==
    [][\A t \in Threads :
         /\ (thr[t].pc = "idle" /\ thr'[t].pc = "scan") => ScanSuffices(t)'
         /\ (/\ thr[t].pc = "scan"
             /\ ScanSuffices(t)
             /\ \A c \in DOMAIN p.inputs : p'.inputs[c] >= p.inputs[c])
            => IF thr'[t].pc = "scan"
               THEN ScanSuffices(t)'
               ELSE thr[t].cursor < thr[t].accumulation + p.inputs[thr[t].i]
         /\ (thr[t].pc = "scan" /\ ~ScanSuffices(t))
            => /\ retired
               /\ \E c \in RowCells(p, thr[t].inputBucket) : p.inputs[c] < traced[c]]_vars

\* C29 witness: a Predict that loaded a positive row sum is at the last
\* cell of its scan and bound for the fallback, after a reset emptied the
\* cells of its row
C29_Witness ==
    \E t \in Threads :
      /\ thr[t].pc = "scan"
      /\ thr[t].i = (thr[t].inputBucket + 1) * p.outputBuckets - 1
      /\ ~ScanSuffices(t)
      /\ retired

\* the sum of the skip counts of the ring positions after tail up to and
\* including head
SkipSum(q) ==
    SumOver([s \in DOMAIN q.window |-> getSkipped(q.window[s])], LiveSlots(q) \ {q.tail})

\* C30: whenever no rotate holds the writer lock, and so after every
\* completed rotate, size is the sum of the skip counts of the positions
\* after tail up to and including head (0 when tail = head), and
\* 0 <= size < ring capacity - 1.
C30_SizeIsSkipSum ==
    (\A r \in RotIds : rot[r].pc \notin LockedPcs)
    => /\ Size(p) = SkipSum(p)
       /\ (p.tail = p.head => Size(p) = 0)
       /\ 0 <= Size(p)
       /\ Size(p) < RingLen(p) - 1

\* C30 witness: every rotate has returned; the two positions after the
\* tail hold the skip counts 1 and 2, which make a size of 3
C30_Witness ==
    /\ \A r \in RotIds : rot[r].pc = "free"
    /\ Cardinality(LiveSlots(p)) = 3
    /\ getSkipped(Head(p)) = 2
    /\ getSkipped(Tail(p)) = 0
    /\ Size(p) = 3
    /\ p.headTimestamp = 30

\* C31: when a rotate that forwarded a whole window or more (the skip count
\* it stored in the head is at least window / interval) ends its loop and
\* releases the lock, tail = head, the size is 0, every summary cell and
\* row sum is zero and so is every slice, whatever the ring held before.
C31_WholeWindowClears ==
    [][\A r \in RotIds :
         (/\ rot[r].pc = "loop"
          /\ rot'[r].pc = "free"
          /\ getSkipped(Head(p)) * MovingInterval >= WindowOf(p))
         => /\ rot[r].ts - (p.headTimestamp - getSkipped(Head(p)) * MovingInterval) >= WindowOf(p)
            /\ p'.tail = p'.head
            /\ Size(p') = 0
            /\ SummaryIsZero(p')
            /\ \A s \in DOMAIN p'.window, c \in DOMAIN p'.inputs : p'.window[s][c] = 0]_vars

\* C31 witness: a rotate(80 s) forwarded seven intervals from a head
\* timestamp of 10 s over a ring of two live slices, retired both, after
\* two traces were added, and is about to release the lock
C31_Witness ==
    \E r \in RotIds :
      /\ rot[r].pc = "loop"
      /\ ~rotateMustReset(p)
      /\ rot[r].ts = 80
      /\ getSkipped(Head(p)) = 7
      /\ p.head = 2
      /\ p.tail = 2
      /\ \E c \in DOMAIN p.inputs : traced[c] > 1

\* the head timestamp that NewSimpleOutputPredictor set
HeadTimestamp0 == NewSimpleOutputPredictor(1024, 1024, 60, 0).headTimestamp

\* C32: no step decreases the head timestamp; it differs from the one set
\* at construction by a whole number of intervals, whatever the order of
\* the timestamps of the rotate calls; and when a rotate(ts) that forwarded
\* releases the lock, 0 <= ts - headTimestamp < interval.
C32_HeadTimestampMonotone ==
    [][/\ p'.headTimestamp >= p.headTimestamp
       /\ (p'.headTimestamp - HeadTimestamp0) % MovingInterval = 0
       /\ \A r \in RotIds :
            (rot[r].pc = "loop" /\ rot'[r].pc = "free")
            => /\ 0 <= rot[r].ts - p'.headTimestamp
               /\ rot[r].ts - p'.headTimestamp < MovingInterval]_vars

\* C32 witness: a rotate(35 s) that forwarded to a head timestamp of 30 s
\* is about to release the lock while a rotate with the past timestamp
\* 10 s, started before it, has not run yet
C32_Witness ==
    \E r, r2 \in RotIds :
      /\ rot[r].pc = "loop"
      /\ ~rotateMustReset(p)
      /\ rot[r].ts = 35
      /\ p.headTimestamp = 30
      /\ rot[r2].pc = "check"
      /\ rot[r2].ts = 10

====
